---- MODULE Spec2Model ----
(***************************************************************************)
(* VibePilot (src/main.py): fetch the saved tracks page by page, collect   *)
(* audio features and first-artist genres, classify every track by the     *)
(* rule list, create one playlist per vibe and write the run log.          *)
(*                                                                         *)
(* Feature values are scaled by 100 (0.7 is 70, 0.75 is 75); tempo is in   *)
(* BPM.  A string that the code inspects (a genre) is the sequence of its  *)
(* characters.  Python's None is the integer None (outside every range).   *)
(***************************************************************************)
EXTENDS Integers, Sequences, FiniteSets, TLC

VARIABLES
  pc,            \* position of the run
  err,           \* the uncaught exception that ended the run, or "none"
  cap,           \* fetch_liked_songs: limit
  lib,           \* service: the user's saved tracks, in service order
  srvPageMax,    \* service: the most items it returns in one page
  srvAudio,      \* service: track id -> audio features object (or null)
  srvGenres,     \* service: artist id -> genre list
  tracks,        \* fetch_liked_songs: tracks / main: liked_tracks
  offset,        \* fetch_liked_songs: offset
  features,      \* get_audio_features: features / main: features
  chunk,         \* get_audio_features: chunk of the running loop
  idx,           \* main: position of the for loop over liked_tracks (1-based)
  vibe_tracks,   \* main: vibe_tracks, a dict in insertion order
  log_entries,   \* main: log_entries
  pidx,          \* create_playlists: position in vibe_tracks.items()
  playlist,      \* create_playlists: id of the playlist just created
  playlist_ids,  \* create_playlists: playlist_ids
  remote,        \* service: playlists on the account
  logs,          \* log files written
  calls          \* history: remote calls and classifications, in order

vars == <<pc, err, cap, lib, srvPageMax, srvAudio, srvGenres, tracks, offset,
          features, chunk, idx, vibe_tracks, log_entries, pidx, playlist,
          playlist_ids, remote, logs, calls>>

----------------------------------------------------------------------------
(* Bounds *)
MaxTracks == 3       \* longest library of a whole run
MaxLibrary == 125    \* longest library of a fetch
MaxCalls == 40       \* most page requests of one fetch

(* Program constants *)
PageSize == 50
AudioChunkSize == 100
ArtistChunkSize == 50
DefaultLimit == 1000
None == -1

VIBES == <<"Chill Vibes", "Sad Bops", "Hype Gym", "Night Drive",
           "Lo-Fi Focus", "Romantic Mood">>

VibeSet == {VIBES[i] : i \in 1..Len(VIBES)}

Min(a, b) == IF a <= b THEN a ELSE b

----------------------------------------------------------------------------
(* Strings the code inspects *)
UpperAlpha == <<"A","B","C","D","E","F","G","H","I","J","K","L","M",
                "N","O","P","Q","R","S","T","U","V","W","X","Y","Z">>
LowerAlpha == <<"a","b","c","d","e","f","g","h","i","j","k","l","m",
                "n","o","p","q","r","s","t","u","v","w","x","y","z">>

LowerChar(c) ==
  IF \E k \in 1..26 : UpperAlpha[k] = c
    THEN LowerAlpha[CHOOSE k \in 1..26 : UpperAlpha[k] = c]
    ELSE c

\* str.lower()
lower(s) == [j \in 1..Len(s) |-> LowerChar(s[j])]

\* sub in s
Contains(sub, s) ==
  \E k \in 0..(Len(s) - Len(sub)) : SubSeq(s, k + 1, k + Len(sub)) = sub

LoFi == <<"l","o","-","f","i">>

G_lofi == <<"l","o","-","f","i">>
G_LoFiBeats == <<"L","o","-","F","i"," ","B","e","a","t","s">>
G_LOFI == <<"L","O","F","I">>
G_rock == <<"r","o","c","k">>

----------------------------------------------------------------------------
(* dicts *)
EmptyDict == <<>>

\* d.get(k, default)
dict_get(d, k, default) == IF k \in DOMAIN d THEN d[k] ELSE default

\* d[k] = v
dict_set(d, k, v) == (k :> v) @@ d

----------------------------------------------------------------------------
(* classify_vibe *)
TypeError == "TypeError"

\* a comparison of a number with a constant; None cannot be compared
Gt(x, c) == IF x = None THEN "E" ELSE IF x > c THEN "T" ELSE "F"
Ge(x, c) == IF x = None THEN "E" ELSE IF x >= c THEN "T" ELSE "F"
Lt(x, c) == IF x = None THEN "E" ELSE IF x < c THEN "T" ELSE "F"
Le(x, c) == IF x = None THEN "E" ELSE IF x <= c THEN "T" ELSE "F"

\* "a and b": b is evaluated only when a is true
And(a, b) == IF a = "T" THEN b ELSE a

Valence(f) == dict_get(f, "valence", 0)
Energy(f) == dict_get(f, "energy", 0)
Dance(f) == dict_get(f, "danceability", 0)
Tempo(f) == dict_get(f, "tempo", 0)
Genres(f) ==
  LET gs == dict_get(f, "genres", <<>>) IN [j \in 1..Len(gs) |-> lower(gs[j])]

Rule1(f) == And(Gt(Valence(f), 70), Gt(Energy(f), 70))
Rule2(f) == And(And(Gt(Valence(f), 60), Gt(Dance(f), 60)), Lt(Energy(f), 60))
Rule3_flipped(f) == And(Lt(Valence(f), 30), Gt(Energy(f), 50))
Rule3_low(f) == And(Lt(Valence(f), 30), Lt(Energy(f), 30))
Rule3(f) == And(Lt(Valence(f), 30), Lt(Energy(f), 50))
Rule4(f) == And(And(Ge(Tempo(f), 100), Le(Tempo(f), 130)), Ge(Energy(f), 50))
Rule5(f) ==
  IF \E j \in 1..Len(Genres(f)) : Contains(LoFi, Genres(f)[j]) THEN "T" ELSE "F"
Rule6_le(f) == And(Le(Valence(f), 50), Lt(Energy(f), 60))
Rule6(f) == And(Ge(Valence(f), 50), Lt(Energy(f), 60))

\* the rules in order; a comparison that reads None raises TypeError.  The
\* branch on prompt and openai_api_key before the last return only sets a
\* module attribute and passes, so it is no part of the result.
classify_vibe(f) ==
  IF Rule1(f) # "F" THEN (IF Rule1(f) = "T" THEN "Hype Gym" ELSE TypeError)
  ELSE IF Rule2(f) # "F" THEN (IF Rule2(f) = "T" THEN "Chill Vibes" ELSE TypeError)
  ELSE IF Rule3(f) # "F" THEN (IF Rule3(f) = "T" THEN "Sad Bops" ELSE TypeError)
  ELSE IF Rule4(f) # "F" THEN (IF Rule4(f) = "T" THEN "Night Drive" ELSE TypeError)
  ELSE IF Rule5(f) = "T" THEN "Lo-Fi Focus"
  ELSE IF Rule6(f) # "F" THEN (IF Rule6(f) = "T" THEN "Romantic Mood" ELSE TypeError)
  ELSE "Chill Vibes"

----------------------------------------------------------------------------
(* The service *)
NullObj == [null |-> TRUE]

\* bool(x) of an object the service returns: None is falsy
Truthy(x) == ~x.null

\* an entry of the saved-tracks list
Item(i, kind) ==
  IF kind = "notrack" THEN [track |-> NullObj]
  ELSE [track |-> [null |-> FALSE, id |-> i, name |-> 1000 + i,
                   artists |-> IF kind = "artist" THEN <<[id |-> i]>> ELSE <<>>]]

Kinds == {"notrack", "noartist", "artist"}

\* an audio features object; the service may return null, or omit a field
Af(i, profile) ==
  CASE profile = "null" -> NullObj
    [] profile = "hype" -> [null |-> FALSE, id |-> i, valence |-> 80,
                             energy |-> 80, danceability |-> 50, tempo |-> 120]
    [] profile = "sad"  -> [null |-> FALSE, id |-> i, valence |-> 20,
                             energy |-> 30, danceability |-> 50, tempo |-> 90]
    [] profile = "mid"  -> [null |-> FALSE, id |-> i, valence |-> 40,
                             energy |-> 55, danceability |-> 50, tempo |-> 90]
    [] profile = "omit" -> [null |-> FALSE, id |-> i,
                             energy |-> 40, danceability |-> 50, tempo |-> 90]

AfProfiles == {"null", "hype", "sad", "mid", "omit"}

GenreLists == {<<>>, <<G_LoFiBeats>>}

\* sp.current_user_saved_tracks(limit, offset)["items"]
current_user_saved_tracks(limit, off) ==
  LET n == Min(Min(limit, srvPageMax), Len(lib) - off)
  IN IF n <= 0 THEN <<>> ELSE SubSeq(lib, off + 1, off + n)

\* sp.audio_features(ids)
audio_features(ids) == [j \in 1..Len(ids) |-> srvAudio[ids[j]]]

\* sp.artists(ids)["artists"]
artists(ids) == [j \in 1..Len(ids) |-> [id |-> ids[j], genres |-> srvGenres[ids[j]]]]

----------------------------------------------------------------------------
(* fetch_liked_songs *)
page_limit_fixed(limit, n) == PageSize
page_limit(limit, n) == Min(PageSize, limit - n)

\* the while condition and the break: "fetch" to request again, else "return"
fetch_loop_nobreak(n, limit, empty) == IF n < limit THEN "fetch" ELSE "return"
fetch_loop(n, limit, empty) ==
  IF ~empty /\ n < limit THEN "fetch" ELSE "return"

----------------------------------------------------------------------------
(* get_audio_features *)
track_ids(ts) ==
  LET s == SelectSeq(ts, LAMBDA t : Truthy(t.track))
  IN [j \in 1..Len(s) |-> s[j].track.id]

artist_ids(ts) ==
  LET s == SelectSeq(ts, LAMBDA t : Truthy(t.track) /\ Len(t.track.artists) > 0)
  IN [j \in 1..Len(s) |-> s[j].track.artists[1].id]

\* seq[from : from + n]
Slice(seq, from, n) ==
  IF from >= Len(seq) \/ n <= 0 THEN <<>>
  ELSE SubSeq(seq, from + 1, Min(from + n, Len(seq)))

\* af.get(k)
af_get(af, k) == IF k \in DOMAIN af THEN af[k] ELSE None

\* for af in audio_feats: ...
merge_audio(feat, afs) ==
  LET RECURSIVE go(_, _)
      go(f, j) ==
        IF j > Len(afs) THEN f
        ELSE IF ~Truthy(afs[j]) THEN go(f, j + 1)
        ELSE go(dict_set(f, afs[j].id,
                  [valence |-> af_get(afs[j], "valence"),
                   energy |-> af_get(afs[j], "energy"),
                   danceability |-> af_get(afs[j], "danceability"),
                   tempo |-> af_get(afs[j], "tempo")]), j + 1)
  IN go(feat, 1)

\* for track, artist in zip(ts, arts): ...; ok is FALSE when track["track"]
\* is None and the subscript raises TypeError
merge_genres(feat, ts, arts) ==
  LET n == Min(Len(ts), Len(arts))
      RECURSIVE go(_, _)
      go(f, j) ==
        IF j > n THEN [ok |-> TRUE, f |-> f]
        ELSE IF ~Truthy(ts[j].track) THEN [ok |-> FALSE, f |-> f]
        ELSE LET tid == ts[j].track.id
                 g == arts[j].genres
             IN go(IF tid \in DOMAIN f
                     THEN dict_set(f, tid, dict_set(f[tid], "genres", g))
                     ELSE dict_set(f, tid, [genres |-> g]), j + 1)
  IN go(feat, 1)

audio_loop(ts, c) == IF c < Len(track_ids(ts)) THEN "audio" ELSE "artists"
artists_loop(ts, c) == IF c < Len(artist_ids(ts)) THEN "artists" ELSE "return"

----------------------------------------------------------------------------
(* main and create_playlists *)
\* vibe_tracks is a dict in insertion order: a sequence of (vibe, tracks)
HasVibe(vt, v) == \E k \in 1..Len(vt) : vt[k].vibe = v
TracksOf(vt, v) ==
  IF HasVibe(vt, v) THEN vt[CHOOSE k \in 1..Len(vt) : vt[k].vibe = v].tracks
  ELSE <<>>

\* vibe_tracks[vibe].append(tid) on a defaultdict(list)
vibe_assign(vt, v, tid) ==
  IF HasVibe(vt, v)
    THEN [k \in 1..Len(vt) |-> IF vt[k].vibe = v
                                 THEN [vt[k] EXCEPT !.tracks = <<tid>>]
                                 ELSE vt[k]]
    ELSE Append(vt, [vibe |-> v, tracks |-> <<tid>>])
vibe_append(vt, v, tid) ==
  IF HasVibe(vt, v)
    THEN [k \in 1..Len(vt) |-> IF vt[k].vibe = v
                                 THEN [vt[k] EXCEPT !.tracks = Append(@, tid)]
                                 ELSE vt[k]]
    ELSE Append(vt, [vibe |-> v, tracks |-> <<tid>>])

create_loop(vt, p) == IF p <= Len(vt) THEN "create" ELSE "return"

\* the statement main runs after a step: after the call of sp.current_user
\* ("user"), after a function returned ("fetch", "features", "create") or
\* after an iteration of the for loop at position i - 1 ("classify")
main_next_indented(after, ts, i, vt) ==
  LET toClassify == IF i <= Len(ts) THEN "classify" ELSE "log"
  IN CASE after = "user" -> "fetch"
       [] after = "fetch" -> IF audio_loop(ts, 0) = "audio" THEN "audio"
                             ELSE IF artists_loop(ts, 0) = "artists" THEN "artists"
                             ELSE toClassify
       [] after = "features" -> toClassify
       [] after = "classify" -> IF create_loop(vt, 1) = "create" THEN "create"
                                ELSE toClassify
       [] after = "create" -> toClassify
main_next(after, ts, i, vt) ==
  LET toCreate == IF create_loop(vt, 1) = "create" THEN "create" ELSE "log"
      toClassify == IF i <= Len(ts) THEN "classify" ELSE toCreate
      toFeatures == IF audio_loop(ts, 0) = "audio" THEN "audio"
                    ELSE IF artists_loop(ts, 0) = "artists" THEN "artists"
                    ELSE toClassify
  IN CASE after = "user" ->
            IF fetch_loop(0, DefaultLimit, FALSE) = "fetch" THEN "fetch"
            ELSE toFeatures
       [] after = "fetch" -> toFeatures
       [] after = "features" -> toClassify
       [] after = "classify" -> toClassify
       [] after = "create" -> "log"

\* an exception nobody catches ends the run; cs is the history up to it
Raise_rollback(e, cs) ==
  /\ pc' = "crashed"
  /\ err' = e
  /\ calls' = cs
  /\ remote' = <<>>
  /\ UNCHANGED <<cap, lib, srvPageMax, srvAudio, srvGenres, tracks, offset,
                 features, chunk, idx, vibe_tracks, log_entries, pidx,
                 playlist, playlist_ids, logs>>
Raise(e, cs) ==
  /\ pc' = "crashed"
  /\ err' = e
  /\ calls' = cs
  /\ UNCHANGED <<cap, lib, srvPageMax, srvAudio, srvGenres, tracks, offset,
                 features, chunk, idx, vibe_tracks, log_entries, pidx,
                 playlist, playlist_ids, remote, logs>>

Service == <<cap, lib, srvPageMax, srvAudio, srvGenres>>

----------------------------------------------------------------------------
(* Actions *)

\* user_id = sp.current_user()["id"]
CurrentUser ==
  /\ pc = "user"
  /\ \E ok \in BOOLEAN :
       LET call == [op |-> "current_user", ok |-> ok]
       IN IF ~ok THEN Raise("transport", Append(calls, call))
          ELSE /\ pc' = main_next("user", tracks, 1, vibe_tracks)
               /\ calls' = Append(calls, call)
               /\ UNCHANGED <<err, Service, tracks, offset, features, chunk,
                              idx, vibe_tracks, log_entries, pidx, playlist,
                              playlist_ids, remote, logs>>

\* one iteration of the while loop of fetch_liked_songs, up to the next
\* evaluation of its condition; ret is where the caller continues
fetch_step(ret) ==
  /\ pc = "fetch"
  /\ Len(calls) < MaxCalls
  /\ \E ok \in BOOLEAN :
       LET lim == page_limit(cap, Len(tracks))
           items == current_user_saved_tracks(lim, offset)
           call == [op |-> "saved_tracks", ok |-> ok, limit |-> lim,
                    offset |-> offset, n |-> IF ok THEN Len(items) ELSE 0]
       IN IF ~ok THEN Raise("transport", Append(calls, call))
          ELSE /\ tracks' = tracks \o items
               /\ offset' = offset + Len(items)
               /\ calls' = Append(calls, call)
               /\ pc' = IF fetch_loop(Len(tracks'), cap, items = <<>>) = "fetch"
                          THEN "fetch" ELSE ret
               /\ UNCHANGED <<err, Service, features, chunk, idx, vibe_tracks,
                              log_entries, pidx, playlist, playlist_ids,
                              remote, logs>>

\* liked_tracks = fetch_liked_songs(sp)
FetchPage == fetch_step(main_next("fetch", tracks', 1, vibe_tracks))

\* fetch_liked_songs(sp, cap) on its own
FetchOnly == fetch_step("fetched")

\* one iteration of the audio features loop of get_audio_features
AudioChunk ==
  /\ pc = "audio"
  /\ \E ok \in BOOLEAN :
       LET ids == Slice(track_ids(tracks), chunk, AudioChunkSize)
           call == [op |-> "audio_features", ok |-> ok, ids |-> ids]
           more == audio_loop(tracks, chunk + AudioChunkSize) = "audio"
       IN IF ~ok THEN Raise("transport", Append(calls, call))
          ELSE /\ features' = merge_audio(features, audio_features(ids))
               /\ calls' = Append(calls, call)
               /\ chunk' = IF more THEN chunk + AudioChunkSize ELSE 0
               /\ pc' = IF more THEN "audio"
                        ELSE IF artists_loop(tracks, 0) = "artists" THEN "artists"
                        ELSE main_next("features", tracks, 1, vibe_tracks)
               /\ UNCHANGED <<err, Service, tracks, offset, idx, vibe_tracks,
                              log_entries, pidx, playlist, playlist_ids,
                              remote, logs>>

\* one iteration of the artist genres loop of get_audio_features
ArtistChunk ==
  /\ pc = "artists"
  /\ \E ok \in BOOLEAN :
       LET ids == Slice(artist_ids(tracks), chunk, ArtistChunkSize)
           call == [op |-> "artists", ok |-> ok, ids |-> ids]
           r == merge_genres(features, Slice(tracks, chunk, Len(ids)), artists(ids))
           more == artists_loop(tracks, chunk + ArtistChunkSize) = "artists"
       IN IF ~ok THEN Raise("transport", Append(calls, call))
          ELSE IF ~r.ok
            THEN Raise("TypeError@get_audio_features", Append(calls, call))
          ELSE /\ features' = r.f
               /\ calls' = Append(calls, call)
               /\ chunk' = IF more THEN chunk + ArtistChunkSize ELSE 0
               /\ pc' = IF more THEN "artists"
                        ELSE main_next("features", tracks, 1, vibe_tracks)
               /\ UNCHANGED <<err, Service, tracks, offset, idx, vibe_tracks,
                              log_entries, pidx, playlist, playlist_ids,
                              remote, logs>>

\* one iteration of the for loop of main
Classify ==
  /\ pc = "classify"
  /\ LET track == tracks[idx].track
     IN IF ~Truthy(track)
          THEN /\ idx' = idx + 1
               /\ pc' = main_next("classify", tracks, idx + 1, vibe_tracks)
               /\ UNCHANGED <<err, Service, tracks, offset, features, chunk,
                              vibe_tracks, log_entries, pidx, playlist,
                              playlist_ids, remote, logs, calls>>
          ELSE LET tid == track.id
                   vibe == classify_vibe(dict_get(features, tid, EmptyDict))
               IN IF vibe = TypeError
                    THEN Raise("TypeError@classify_vibe", calls)
                    ELSE /\ vibe_tracks' = vibe_append(vibe_tracks, vibe, tid)
                         /\ log_entries' = Append(log_entries,
                               [id |-> tid, name |-> track.name, vibe |-> vibe])
                         /\ calls' = Append(calls, [op |-> "classify", ok |-> TRUE, id |-> tid])
                         /\ idx' = idx + 1
                         /\ pc' = main_next("classify", tracks, idx + 1, vibe_tracks')
                         /\ UNCHANGED <<err, Service, tracks, offset, features,
                                        chunk, pidx, playlist, playlist_ids,
                                        remote, logs>>

\* create_playlists: the head of the for loop, up to sp.user_playlist_create
skip_empty_inverted(ts) == ts # <<>>
skip_empty(ts) == ts = <<>>

CreatePlaylist ==
  /\ pc = "create"
  /\ LET vibe == vibe_tracks[pidx].vibe
         skip == skip_empty(vibe_tracks[pidx].tracks)
         more == create_loop(vibe_tracks, pidx + 1) = "create"
     IN IF skip
          THEN /\ pidx' = IF more THEN pidx + 1 ELSE 1
               /\ pc' = IF more THEN "create"
                        ELSE main_next("create", tracks, idx, vibe_tracks)
               /\ UNCHANGED <<err, Service, tracks, offset, features, chunk,
                              idx, vibe_tracks, log_entries, playlist,
                              playlist_ids, remote, logs, calls>>
          ELSE \E ok \in BOOLEAN :
                 LET call == [op |-> "playlist_create", ok |-> ok, name |-> vibe]
                     id == Len(remote) + 1
                 IN IF ~ok THEN Raise("transport", Append(calls, call))
                    ELSE /\ remote' = Append(remote,
                               [id |-> id, name |-> vibe, public |-> FALSE, items |-> <<>>])
                         /\ playlist' = id
                         /\ calls' = Append(calls, call)
                         /\ pc' = "add"
                         /\ UNCHANGED <<err, Service, tracks, offset, features,
                                        chunk, idx, vibe_tracks, log_entries,
                                        pidx, playlist_ids, logs>>

\* create_playlists: sp.playlist_add_items and the rest of the iteration
AddItems ==
  /\ pc = "add"
  /\ \E ok \in BOOLEAN :
       LET vibe == vibe_tracks[pidx].vibe
           items == vibe_tracks[pidx].tracks
           call == [op |-> "add_items", ok |-> ok, playlist |-> playlist, items |-> items]
           more == create_loop(vibe_tracks, pidx + 1) = "create"
       IN IF ~ok THEN Raise("transport", Append(calls, call))
          ELSE /\ remote' = [remote EXCEPT ![playlist].items = @ \o items]
               /\ playlist_ids' = dict_set(playlist_ids, vibe, playlist)
               /\ calls' = Append(calls, call)
               /\ pidx' = IF more THEN pidx + 1 ELSE 1
               /\ pc' = IF more THEN "create"
                        ELSE main_next("create", tracks, idx, vibe_tracks)
               /\ UNCHANGED <<err, Service, tracks, offset, features, chunk,
                              idx, vibe_tracks, log_entries, playlist, logs>>

\* save_logs(log_data)
SaveLogs ==
  /\ pc = "log"
  /\ logs' = Append(logs, [tracks_processed |-> Len(log_entries),
                           playlists |-> playlist_ids,
                           entries |-> log_entries])
  /\ calls' = Append(calls, [op |-> "save_logs", ok |-> TRUE])
  /\ pc' = "done"
  /\ UNCHANGED <<err, Service, tracks, offset, features, chunk, idx,
                 vibe_tracks, log_entries, pidx, playlist, playlist_ids, remote>>

----------------------------------------------------------------------------
(* Specifications *)

\* the locals of a run that has not started
Fresh ==
  /\ err = "none"
  /\ tracks = <<>>
  /\ offset = 0
  /\ features = EmptyDict
  /\ chunk = 0
  /\ idx = 1
  /\ vibe_tracks = <<>>
  /\ log_entries = <<>>
  /\ pidx = 1
  /\ playlist = 0
  /\ playlist_ids = EmptyDict
  /\ remote = <<>>
  /\ logs = <<>>
  /\ calls = <<>>

MainServicePages == {PageSize, 2}

\* a whole run of main against a library of at most MaxTracks entries
Init ==
  /\ Fresh
  /\ pc = "user"
  /\ cap = DefaultLimit
  /\ srvPageMax \in MainServicePages
  /\ \E n \in 0..MaxTracks :
       \E kinds \in [1..n -> Kinds], prof \in [1..n -> AfProfiles],
          gen \in [1..n -> GenreLists] :
         /\ \A i \in 1..n : kinds[i] = "notrack" => prof[i] = "null"
         /\ \A i \in 1..n : kinds[i] # "artist" => gen[i] = <<>>
         /\ lib = [i \in 1..n |-> Item(i, kinds[i])]
         /\ srvAudio = [i \in 1..n |-> Af(i, prof[i])]
         /\ srvGenres = [i \in 1..n |-> gen[i]]

Next ==
  \/ CurrentUser
  \/ FetchPage
  \/ AudioChunk
  \/ ArtistChunk
  \/ Classify
  \/ CreatePlaylist
  \/ AddItems
  \/ SaveLogs

Spec == Init /\ [][Next]_vars

\* fetch_liked_songs(sp, cap) against libraries of up to MaxLibrary entries
Caps == {0, 1, 50, 51, 120}
ServicePages == {50, 20, 7}

InitFetch ==
  /\ Fresh
  /\ cap \in Caps
  /\ srvPageMax \in ServicePages
  /\ \E n \in 0..MaxLibrary :
       /\ lib = [i \in 1..n |-> Item(i, "artist")]
       /\ srvAudio = [i \in 1..n |-> NullObj]
       /\ srvGenres = [i \in 1..n |-> <<>>]
  /\ pc = IF fetch_loop(0, cap, FALSE) = "fetch" THEN "fetch" ELSE "fetched"

NextFetch == FetchOnly

SpecFetch == InitFetch /\ [][NextFetch]_vars

\* the loop keeps running when it can
LiveSpecFetch == SpecFetch /\ WF_vars(FetchOnly)

\* classify_vibe on the descriptor of one track
Absent == -2
ValenceValues == {Absent, None, 0, 29, 30, 49, 50, 60, 61, 70, 71, 75}
EnergyValues == {Absent, None, 0, 49, 50, 59, 60, 70, 71, 75}
DanceValues == {Absent, None, 60, 61}
TempoValues == {Absent, None, 99, 100, 130, 131}
GenreChoices == {<<>>, <<G_lofi>>, <<G_LoFiBeats>>, <<G_rock>>, <<G_LOFI>>,
                 <<G_rock, G_LoFiBeats>>}

Descriptor(v, e, d, t, hasG, g) ==
  LET val(k) == CASE k = "valence" -> v [] k = "energy" -> e
                  [] k = "danceability" -> d [] k = "tempo" -> t
      num == [k \in {x \in {"valence", "energy", "danceability", "tempo"} :
                       val(x) # Absent} |-> val(k)]
  IN IF hasG THEN dict_set(num, "genres", g) ELSE num

InitClassify ==
  /\ err = "none"
  /\ pc = "classify"
  /\ cap = DefaultLimit
  /\ srvPageMax = PageSize
  /\ lib = <<Item(1, "artist")>>
  /\ srvAudio = <<NullObj>>
  /\ srvGenres = << <<>> >>
  /\ tracks = lib
  /\ offset = 1
  /\ chunk = 0
  /\ idx = 1
  /\ vibe_tracks = <<>>
  /\ log_entries = <<>>
  /\ pidx = 1
  /\ playlist = 0
  /\ playlist_ids = EmptyDict
  /\ remote = <<>>
  /\ logs = <<>>
  /\ calls = <<>>
  /\ \E known \in BOOLEAN, v \in ValenceValues, e \in EnergyValues,
        d \in DanceValues, t \in TempoValues, hasG \in BOOLEAN,
        g \in GenreChoices :
       /\ ~hasG => g = <<>>
       /\ ~known => (v = Absent /\ e = Absent /\ d = Absent /\ t = Absent /\ ~hasG)
       /\ features = IF known THEN (1 :> Descriptor(v, e, d, t, hasG, g))
                      ELSE EmptyDict

NextClassify == Classify

SpecClassify == InitClassify /\ [][NextClassify]_vars

----------------------------------------------------------------------------
(* Properties *)

\* the descriptor main passes to classify_vibe for track tid
DescOf(tid) == dict_get(features, tid, EmptyDict)

\* the page requests of the run, in order
Pages == SelectSeq(calls, LAMBDA c : c.op = "saved_tracks")

\* items collected before the k-th page request
RECURSIVE Collected(_)
Collected(k) == IF k <= 1 THEN 0 ELSE Collected(k - 1) + Pages[k - 1].n

CallsOf(op) == SelectSeq(calls, LAMBDA c : c.op = op)

\* the tracks the log assigns to vibe v, in processing order
Assigned(v) ==
  LET s == SelectSeq(log_entries, LAMBDA en : en.vibe = v)
  IN [k \in 1..Len(s) |-> s[k].id]

\* C1: classify_vibe of the empty descriptor set {} is "Chill Vibes": a
\* track with no descriptors falls through every rule to the default label.
C1_EmptyDescriptorIsChill ==
  (pc # "classify" /\ DOMAIN DescOf(1) = {}) =>
     /\ err = "none"
     /\ log_entries = <<[id |-> 1, name |-> 1001, vibe |-> "Chill Vibes"]>>
     /\ vibe_tracks = <<[vibe |-> "Chill Vibes", tracks |-> <<1>>]>>

\* C1, as the code has it: the defaults 0 and 0 satisfy rule 3 (valence
\* < 0.3 and energy < 0.5), so classify_vibe of {} is "Sad Bops" and the
\* default label is not reached.
C1_EmptyDescriptorIsSad ==
  (pc # "classify" /\ DOMAIN DescOf(1) = {}) =>
     /\ err = "none"
     /\ log_entries = <<[id |-> 1, name |-> 1001, vibe |-> "Sad Bops"]>>
     /\ vibe_tracks = <<[vibe |-> "Sad Bops", tracks |-> <<1>>]>>

C1_Witness ==
  /\ pc # "classify"
  /\ DOMAIN DescOf(1) = {}
  /\ Len(log_entries) = 1

\* C2: get_audio_features completes without error on every fetched list,
\* and stores for each track that has a first artist the genres of that
\* artist under the track's own id; a track without artists gets no genres.
C2_GenresUnderOwnTrack ==
  /\ err # "TypeError@get_audio_features"
  /\ pc \in {"classify", "create", "add", "log", "done"} =>
       \A i \in 1..Len(tracks) :
         Truthy(tracks[i].track) =>
           LET t == tracks[i].track
           IN IF Len(t.artists) > 0
                THEN /\ "genres" \in DOMAIN DescOf(t.id)
                     /\ DescOf(t.id)["genres"] = srvGenres[t.artists[1].id]
                ELSE "genres" \notin DOMAIN DescOf(t.id)

\* C3: classify_vibe is total: on every descriptor set the aggregator
\* produces it returns one of the six labels and never fails.
C3_ClassifyTotal ==
  /\ err # "TypeError@classify_vibe"
  /\ \A k \in 1..Len(log_entries) : log_entries[k].vibe \in VibeSet

\* the rule list as the specification states it: a field with no value
\* counts as 0, and the lowest-numbered rule that holds gives the label
NumOf(d, k) == IF k \in DOMAIN d /\ d[k] # None THEN d[k] ELSE 0
HasLoFi(d) ==
  "genres" \in DOMAIN d /\
    \E j \in 1..Len(d["genres"]) : Contains(LoFi, lower(d["genres"][j]))
FirstRule(d) ==
  LET v == NumOf(d, "valence")
      e == NumOf(d, "energy")
      da == NumOf(d, "danceability")
      t == NumOf(d, "tempo")
  IN IF v > 70 /\ e > 70 THEN "Hype Gym"
     ELSE IF v > 60 /\ da > 60 /\ e < 60 THEN "Chill Vibes"
     ELSE IF v < 30 /\ e < 50 THEN "Sad Bops"
     ELSE IF 100 <= t /\ t <= 130 /\ e >= 50 THEN "Night Drive"
     ELSE IF HasLoFi(d) THEN "Lo-Fi Focus"
     ELSE IF v >= 50 /\ e < 60 THEN "Romantic Mood"
     ELSE "Chill Vibes"

\* C4: for every descriptor set classify_vibe returns the label of the
\* lowest-numbered rule whose condition holds, "Chill Vibes" when none
\* holds; rule 5 matches "lo-fi" in any letter case.
C4_FirstMatchingRule ==
  pc # "classify" =>
     /\ err = "none"
     /\ Len(log_entries) = 1
     /\ log_entries[1].vibe = FirstRule(DescOf(1))

\* the same on the descriptor sets whose fields, when present, have values
C4_OnValuedFields ==
  (pc # "classify" /\ \A k \in DOMAIN DescOf(1) : k # "genres" => DescOf(1)[k] # None) =>
     /\ err = "none"
     /\ Len(log_entries) = 1
     /\ log_entries[1].vibe = FirstRule(DescOf(1))

\* C5: every page request has limit min(50, cap - collected) >= 1 and
\* offset = collected; none is issued once the cap is reached; the result
\* is a prefix of the library of at most cap items; cap 120 against full
\* pages gives exactly the requests 50, 50, 20.
C5_PageRequests ==
  /\ \A k \in 1..Len(Pages) :
       /\ Collected(k) < cap
       /\ Pages[k].limit = Min(50, cap - Collected(k))
       /\ Pages[k].limit >= 1
       /\ Pages[k].offset = Collected(k)
  /\ Len(tracks) <= cap
  /\ Len(tracks) <= Len(lib)
  /\ tracks = SubSeq(lib, 1, Len(tracks))
  /\ (pc = "fetched" /\ cap = 120 /\ srvPageMax = 50 /\ Len(lib) >= 120) =>
        [k \in 1..Len(Pages) |-> Pages[k].limit] = <<50, 50, 20>>

C5_Witness ==
  /\ pc = "fetched"
  /\ cap = 120
  /\ Len(tracks) = 120
  /\ [k \in 1..Len(Pages) |-> Pages[k].limit] = <<50, 50, 20>>

\* C6: fetch_liked_songs terminates; an empty page ends it at once with
\* the items collected so far, otherwise it ends when the cap is reached.
C6_EmptyPageEnds ==
  /\ \A k \in 1..Len(Pages) :
       (Pages[k].ok /\ Pages[k].n = 0) =>
          /\ k = Len(Pages)
          /\ pc = "fetched"
          /\ Len(tracks) = Collected(k)
  /\ pc = "fetched" =>
       \/ Len(tracks) >= cap
       \/ Len(Pages) > 0 /\ Pages[Len(Pages)].n = 0

C6_FetchTerminates == <>(pc # "fetch") /\ []C6_EmptyPageEnds

C6_Witness ==
  /\ pc = "fetched"
  /\ Len(Pages) > 1
  /\ Pages[Len(Pages)].n = 0
  /\ Len(tracks) > 0
  /\ Len(tracks) < cap

\* C7: three tracks with descriptors (valence .8, energy .8), (valence .2,
\* energy .3), (nothing) end as Hype Gym [t1], Sad Bops [t2], Chill Vibes
\* [t3], three playlists, and a log of three entries in input order.
C7_Scenario ==
  /\ Len(tracks) = 3
  /\ \A i \in 1..3 : Truthy(tracks[i].track) /\ tracks[i].track.id = i
  /\ "valence" \in DOMAIN DescOf(1) /\ DescOf(1)["valence"] = 80
  /\ DescOf(1)["energy"] = 80
  /\ "valence" \in DOMAIN DescOf(2) /\ DescOf(2)["valence"] = 20
  /\ DescOf(2)["energy"] = 30
  /\ DOMAIN DescOf(3) \subseteq {"genres"}
  /\ "genres" \in DOMAIN DescOf(3) => DescOf(3)["genres"] = <<>>

C7_EndToEnd ==
  (pc = "done" /\ C7_Scenario) =>
     /\ vibe_tracks = <<[vibe |-> "Hype Gym", tracks |-> <<1>>],
                        [vibe |-> "Sad Bops", tracks |-> <<2>>],
                        [vibe |-> "Chill Vibes", tracks |-> <<3>>]>>
     /\ Len(remote) = 3
     /\ Len(CallsOf("playlist_create")) = 3
     /\ Len(logs) = 1
     /\ logs[1].tracks_processed = 3
     /\ logs[1].entries = <<[id |-> 1, name |-> 1001, vibe |-> "Hype Gym"],
                            [id |-> 2, name |-> 1002, vibe |-> "Sad Bops"],
                            [id |-> 3, name |-> 1003, vibe |-> "Chill Vibes"]>>

\* C7, as the code has it: the track with nothing is "Sad Bops" by rule 3,
\* so the grouping is Hype Gym [t1], Sad Bops [t2, t3], two playlists are
\* created, and the log has three entries in input order.
C7_EndToEndTwoPlaylists ==
  (pc = "done" /\ C7_Scenario) =>
     /\ vibe_tracks = <<[vibe |-> "Hype Gym", tracks |-> <<1>>],
                        [vibe |-> "Sad Bops", tracks |-> <<2, 3>>]>>
     /\ Len(remote) = 2
     /\ remote[1].name = "Hype Gym" /\ remote[1].items = <<1>>
     /\ remote[2].name = "Sad Bops" /\ remote[2].items = <<2, 3>>
     /\ Len(CallsOf("playlist_create")) = 2
     /\ Len(logs) = 1
     /\ logs[1].tracks_processed = 3
     /\ logs[1].entries = <<[id |-> 1, name |-> 1001, vibe |-> "Hype Gym"],
                            [id |-> 2, name |-> 1002, vibe |-> "Sad Bops"],
                            [id |-> 3, name |-> 1003, vibe |-> "Sad Bops"]>>

C7_Witness == pc = "done" /\ C7_Scenario /\ Len(logs) = 1

\* C8: in a completed run a label without tracks is not in the playlist
\* mapping; a label with tracks has exactly one playlist, filled with all
\* its tracks in processing order by one add call; an empty library gives
\* no playlist and a log with tracks_processed = 0.
C8_OnePlaylistPerLabel ==
  pc = "done" =>
     /\ Len(logs) = 1
     /\ \A v \in VibeSet :
          IF Assigned(v) = <<>>
            THEN /\ v \notin DOMAIN playlist_ids
                 /\ v \notin DOMAIN logs[1].playlists
                 /\ \A k \in 1..Len(remote) : remote[k].name # v
            ELSE /\ v \in DOMAIN playlist_ids
                 /\ logs[1].playlists[v] = playlist_ids[v]
                 /\ Cardinality({k \in 1..Len(remote) : remote[k].name = v}) = 1
                 /\ remote[playlist_ids[v]].name = v
                 /\ remote[playlist_ids[v]].items = Assigned(v)
                 /\ Len(SelectSeq(calls, LAMBDA c :
                       c.op = "add_items" /\ c.playlist = playlist_ids[v])) = 1
     /\ Len(CallsOf("add_items")) = Len(remote)
     /\ lib = <<>> => (remote = <<>> /\ logs[1].tracks_processed = 0)

C8_Witness ==
  /\ pc = "done"
  /\ Len(remote) = 2
  /\ \E v \in VibeSet : Len(Assigned(v)) = 2

\* C9: page requests come before audio feature and artist requests, these
\* before the first classification, classifications before the first
\* playlist call, and the log is written last.
Phase(op) ==
  CASE op = "current_user" -> 0
    [] op = "saved_tracks" -> 1
    [] op \in {"audio_features", "artists"} -> 2
    [] op = "classify" -> 3
    [] op \in {"playlist_create", "add_items"} -> 4
    [] op = "save_logs" -> 5

C9_Ordered ==
  \A i, j \in 1..Len(calls) :
    i < j => Phase(calls[i].op) <= Phase(calls[j].op)

C9_Witness ==
  /\ pc = "done"
  /\ Len(CallsOf("saved_tracks")) >= 2
  /\ Len(CallsOf("audio_features")) >= 1
  /\ Len(CallsOf("artists")) >= 1
  /\ Len(CallsOf("classify")) >= 2
  /\ Len(CallsOf("add_items")) >= 2

\* C10: a remote call that fails ends the run: it is the last call (no
\* retry, no further call), no log is written, and the playlists created
\* before it stay on the account.
C10_FailureEndsRun ==
  \A k \in 1..Len(calls) :
    ~calls[k].ok =>
       /\ k = Len(calls)
       /\ pc = "crashed"
       /\ err = "transport"
       /\ logs = <<>>

C10_NothingAfterFailure ==
  /\ pc = "crashed" => UNCHANGED <<calls, remote, logs>>
  /\ pc' = "crashed" => (remote' = remote /\ logs' = logs)

C10_TransportFailureFatal ==
  []C10_FailureEndsRun /\ [][C10_NothingAfterFailure]_vars

C10_Witness ==
  /\ pc = "crashed"
  /\ err = "transport"
  /\ Len(remote) >= 1
  /\ calls[Len(calls)].op \in {"playlist_create", "add_items"}

====
